---- MODULE Spec2Model ----
(***************************************************************************)
(* Model of the write-buffer / batching engine of signalk-to-mongodb       *)
(* (class MongoDb, src/mongodb.js lines 1-164) together with the calls     *)
(* the plugin makes on it (plugin.start / handleUpdates / plugin.stop).    *)
(*                                                                         *)
(* JavaScript runs the engine on one event loop: code between two awaits   *)
(* is atomic, so every action below is one such run-to-next-await piece.   *)
(* The awaits of the source are: dbClient.connect() (line 36), the         *)
(* back-off setTimeout (line 48), collection.insertMany() (line 149) and   *)
(* dbClient.close() (line 70).  `await this.flush()` and                   *)
(* `await this.connect()` suspend the caller until the callee is done.     *)
(*                                                                         *)
(* Time is the wall clock Date.now() in milliseconds; the clock advances   *)
(* one second at a time, or jumps to the wake-up time of a pending         *)
(* back-off timer.                                                         *)
(***************************************************************************)
EXTENDS Integers, Sequences, FiniteSets, TLC

\* ------------------------------------------------------------------ bounds
MaxTime == 2        \* the clock's free one-second steps stop at MaxTime seconds
MaxSends == 2       \* send() calls made in one engine lifetime
MaxConnFail == 1    \* failed dbClient.connect() attempts in one lifetime (store mostly reachable)

\* ------------------------------------------------------ program constants
defaultTtlMillis == 60000   \* settings.defaultTtlMillis
retryCount == 5             \* default parameter of connect
retryDelay == 1000          \* default parameter of connect
Millis == 1000              \* seconds -> milliseconds factor of start()
Seed1 == 5381               \* hash1 seed
Seed2 == 52711              \* hash2 seed
Mult == 33                  \* hash multiplier
UidShift == 4096            \* hash1 * 4096 + hash2
Word == 65536               \* 16-bit limb: 32-bit values are kept as <<hi, lo>>

\* ------------------------------------------------------------- processes
Senders == {"s1", "s2"}     \* send() invocations that can be in flight together (a call takes the first free slot)
Procs == {"start", "stop", "tick"} \cup Senders

\* Application payloads handed to send(): value is the payload content (a
\* character code; BadValue stands for content JSON.stringify throws on),
\* time is the producer's timestamp (0: none supplied, which is falsy).
BadValue == 0
Payloads == {[value |-> 65, time |-> 0], [value |-> 66, time |-> 1000], [value |-> BadValue, time |-> 0]}
\* the records A, B, C of the end-to-end scenario, in the order they are sent
E2ERecords == <<[value |-> 65, time |-> 0], [value |-> 66, time |-> 0], [value |-> 67, time |-> 0]>>

\* plugin options (batchSize, maxBuffer, flushSecs, ttlSecs) the engine is started with
Configs == {[batchSize |-> 2, maxBuffer |-> 2, flushSecs |-> 0, ttlSecs |-> 1],
            [batchSize |-> 1, maxBuffer |-> 1, flushSecs |-> 1, ttlSecs |-> 1]}
E2EConfig == [batchSize |-> 2, maxBuffer |-> 5, flushSecs |-> 0, ttlSecs |-> 1]
BurstConfig == [batchSize |-> 1, maxBuffer |-> 2, flushSecs |-> 0, ttlSecs |-> 1]
LiveConfig == [batchSize |-> 2, maxBuffer |-> 3, flushSecs |-> 1, ttlSecs |-> 3]
NoOptions == [batchSize |-> 0, maxBuffer |-> 0, flushSecs |-> 0, ttlSecs |-> 0]

\* ------------------------------------------------------------ fingerprint
RECURSIVE XorBits(_, _, _)
\* bitwise XOR of the low n bits of a and b
XorBits(a, b, n) == IF n = 0 THEN 0 ELSE (((a % 2) + (b % 2)) % 2) + 2 * XorBits(a \div 2, b \div 2, n - 1)

\* a variant of the step: h := (h * 33) + c, the additive form of the hash
HashStepAdd(h, c) == LET m == (h.lo * Mult) + c
                     IN [hi |-> ((h.hi * Mult) + (m \div Word)) % Word, lo |-> m % Word]

\* h := (h * 33) ^ c on a 32-bit word held as [hi, lo] 16-bit limbs
HashStep(h, c) == LET m == h.lo * Mult
                      lo1 == m % Word
                      hi1 == ((h.hi * Mult) + (m \div Word)) % Word
                  IN [hi |-> hi1, lo |-> XorBits(lo1, c, 16)]

RECURSIVE HashFrom(_, _, _)
\* while (i--) { c = json.charCodeAt(i); h = (h * 33) ^ c }   (1-based index i)
HashFrom(h, json, i) == IF i = 0 THEN h ELSE HashFrom(HashStep(h, json[i]), json, i - 1)

Hash1(json) == HashFrom([hi |-> 0, lo |-> Seed1], json, Len(json))
Hash2(json) == HashFrom([hi |-> 0, lo |-> Seed2], json, Len(json))

\* (hash1 >>> 0) * 4096 + (hash2 >>> 0) as base-65536 limbs <<high, mid, low>>
Combine(h1, h2) == LET low == h2.lo + ((h1.lo % 16) * UidShift)
                       mid == h2.hi + (h1.lo \div 16) + ((h1.hi % 16) * UidShift) + (low \div Word)
                       high == (h1.hi \div 16) + (mid \div Word)
                   IN <<high, mid % Word, low % Word>>

RECURSIVE Digits(_)
\* decimal digits of n as character codes
Digits(n) == IF n < 10 THEN <<48 + n>> ELSE Digits(n \div 10) \o <<48 + (n % 10)>>

\* JSON.stringify(point): the payload content, then time, then expiry, in
\* the order the keys were added (time is a payload key, expiry is appended)
Stringify(value, time, expiry) == <<value>> \o <<44>> \o Digits(time) \o <<44>> \o Digits(expiry)

\* lines 80-89: the key of the serialized point
UidOf(value, time, expiry) == LET json == Stringify(value, time, expiry) IN Combine(Hash1(json), Hash2(json))

\* UidOf tabulated once for the points of the first seconds (the clock moves in whole seconds)
UidDom == LET Now == {t * Millis : t \in 0..(MaxTime + 34)}
              Ttl == {Millis, LiveConfig.ttlSecs * Millis, defaultTtlMillis}
          IN {<<v, t, t + d>> : v \in {65, 66, 67}, t \in Now, d \in Ttl}
             \cup {<<66, Millis, t + d>> : t \in Now, d \in Ttl}
UidTable == [k \in UidDom |-> UidOf(k[1], k[2], k[3])]
Uid(value, time, expiry) == IF <<value, time, expiry>> \in UidDom THEN UidTable[<<value, time, expiry>>] ELSE UidOf(value, time, expiry)

\* getPoint(point) at clock t with time-to-live ttl; Null when it throws
NullPoint == [value |-> BadValue, time |-> 0, expiry |-> 0, uid |-> <<0, 0, 0>>]
getPoint(p, t, ttl) == IF p.value = BadValue THEN NullPoint
                       ELSE LET time == IF p.time # 0 THEN p.time ELSE t
                                expiry == t + ttl
                            IN [value |-> p.value, time |-> time, expiry |-> expiry,
                                uid |-> Uid(p.value, time, expiry)]


\* ------------------------------------------------------------------ state
VARIABLES now,          \* Date.now(), milliseconds
          options,      \* this.options (NoOptions until start() is called)
          ttlMillis,    \* this.ttlMillis
          flushMillis,  \* this.flushMillis
          flushExpiry,  \* this.flushExpiry
          timer,        \* this.timer is armed
          flushing,     \* this.flushing
          isConnected,  \* this.isConnected
          buffer,       \* this.buffer: the Map's entries in insertion order
          pc,           \* where each asynchronous invocation is suspended
          attempt,      \* connect(): the loop variable of each running sequence
          wake,         \* connect(): when the back-off timer of a sequence fires
          arg,          \* send(): the point of a call suspended in connect()
          fl,           \* flush(): locals of each running invocation
          res,          \* send(): what the call running in each slot has done so far
          lastRes,      \* send(): how the call that returned last ended
          calls,        \* the size of every insertMany() batch issued, in order
          lastFlush,    \* summary of the flush invocation that ended last
          rejected,     \* invocations whose promise was rejected
          sendsLeft,    \* send() calls the environment may still make
          connFailsLeft \* connection attempts the store may still fail

vars == <<now, options, ttlMillis, flushMillis, flushExpiry, timer, flushing, isConnected, buffer,
          pc, attempt, wake, arg, fl, res, lastRes, calls, lastFlush, rejected, sendsLeft, connFailsLeft>>

engine == <<options, ttlMillis, flushMillis, flushExpiry, timer, flushing, isConnected, buffer>>

\* a variant of Min that ignores its first argument
TakeAvailable(a, b) == b

Min(a, b) == IF a < b THEN a ELSE b

RECURSIVE Pow2(_)
Pow2(n) == IF n = 0 THEN 1 ELSE 2 * Pow2(n - 1)

\* locals of a flush invocation: batches, the Map iterator (iter entries
\* lie before its cursor, done: it has returned done), the batch being
\* inserted; id, n0, snap (the buffer when it started), sizes, arrived,
\* swept record the invocation's history
IdleFl == [batches |-> 0, iter |-> 0, done |-> FALSE, batch |-> <<>>,
           id |-> 0, n0 |-> 0, snap |-> <<>>, sizes |-> <<>>, arrived |-> FALSE, swept |-> FALSE]
NoFlush == [id |-> 0, n0 |-> 0, sizes |-> <<>>, arrived |-> FALSE, swept |-> FALSE, failed |-> FALSE, left |-> 0, by |-> "none"]
IdleRes == [staged |-> FALSE, err |-> "none", rejected |-> FALSE, flush |-> "none", seqs |-> 0]
NoArg == [value |-> BadValue, time |-> 0]

\* the engine as the constructor and the field initialisers leave it (lines 11-31)
Constructed ==
        /\ now = 0
        /\ options = NoOptions
        /\ ttlMillis = defaultTtlMillis
        /\ flushMillis = 0
        /\ flushExpiry = 0
        /\ timer = FALSE
        /\ flushing = FALSE
        /\ isConnected = FALSE
        /\ buffer = <<>>
        /\ pc = [p \in Procs |-> "idle"]
        /\ attempt = [p \in Procs |-> 0]
        /\ wake = [p \in Procs |-> 0]
        /\ arg = [p \in Senders |-> NoArg]
        /\ fl = [p \in Procs |-> IdleFl]
        /\ res = [p \in Senders |-> IdleRes]
        /\ lastRes = IdleRes
        /\ calls = <<>>
        /\ lastFlush = NoFlush
        /\ rejected = {}

Init == /\ Constructed
        /\ sendsLeft = MaxSends
        /\ connFailsLeft = MaxConnFail

\* ------------------------------------------ variants of the conditions
\* Each variant below is a plausible slip of one condition of the code; a
\* property that still held with the variant in place of the condition
\* would not depend on it.
FlushSkipsIgnoringFlag(f, c) == ~c

FlushSkipsIgnoringConnection(f, c) == f

BufferExceededLate(size, maxBuffer) == size > maxBuffer

LastAttemptEarly(a) == a = retryCount - 1

ExpiredAtDeadline(t, point) == t >= point.expiry

FlushDueAtDeadline(t, expiry) == t >= expiry

DelayLinear(a) == retryDelay * (a + 1)

FlushDueNever(t, expiry) == FALSE

RemoveNothing(buf, dead) == buf

ShouldFlushLate(size, batchSize, t, expiry) == size > batchSize \/ t > expiry

BatchCountFloor(size, batchSize) == size \div batchSize

PutByValue(buf, pt) == IF \E i \in 1..Len(buf) : buf[i].value = pt.value
                       THEN [i \in 1..Len(buf) |-> IF buf[i].value = pt.value THEN pt ELSE buf[i]]
                       ELSE Append(buf, pt)

BatchCountExtra(size, batchSize) == (size \div batchSize) + 1

\* ------------------------------------------------------- code conditions
\* flush(): `if (this.flushing || !this.isConnected) return;`
FlushSkips(f, c) == f \/ ~c

\* send(): `if (this.buffer.size >= this.options.maxBuffer) throw ...`
BufferExceeded(size, maxBuffer) == size >= maxBuffer

\* send(): `if (this.buffer.size >= this.options.batchSize || Date.now() > this.flushExpiry)`
ShouldFlush(size, batchSize, t, expiry) == size >= batchSize \/ t > expiry

\* housekeeping(): `if (timeNow > point.expiry)`
Expired(t, point) == t > point.expiry

\* housekeeping(): `if (timeNow > this.flushExpiry)`
FlushDue(t, expiry) == t > expiry

\* flush(): `Math.ceil(this.buffer.size / this.options.batchSize)`
BatchCount(size, batchSize) == (size + batchSize - 1) \div batchSize

\* start(): `options.ttlSecs ? options.ttlSecs * 1000 : this.ttlMillis`
StartTtl(o, old) == IF o.ttlSecs # 0 THEN o.ttlSecs * Millis ELSE old

\* start(): `options.flushSecs ? options.flushSecs * 1000 : this.flushMillis`
StartFlushMillis(o, old) == IF o.flushSecs # 0 THEN o.flushSecs * Millis ELSE old

\* connect(): `retryDelay * Math.pow(2, attempt)`
Delay(a) == retryDelay * Pow2(a)

\* connect(): `if (attempt === retryCount)` - the failed attempt was the last
LastAttempt(a) == a = retryCount

\* ------------------------------------------------------------ the buffer
\* this.buffer.set(point.uid, point): an existing key keeps its position
Put(buf, pt) == IF \E i \in 1..Len(buf) : buf[i].uid = pt.uid
                THEN [i \in 1..Len(buf) |-> IF buf[i].uid = pt.uid THEN pt ELSE buf[i]]
                ELSE Append(buf, pt)

\* this.buffer.delete(key) for every key in dead
Remove(buf, dead) == SelectSeq(buf, LAMBDA q : q.uid \notin dead)

Uids(s) == {s[i].uid : i \in 1..Len(s)}

\* a live Map iterator after the keys in dead were deleted: the entries
\* deleted before its cursor no longer count
Shift(st, buf, dead) == [st EXCEPT !.iter = Cardinality({i \in 1..st.iter : buf[i].uid \notin dead})]

\* the keys housekeeping() deletes at time t
ExpiredUids(buf, t) == {buf[i].uid : i \in {j \in 1..Len(buf) : Expired(t, buf[j])}}

RECURSIVE RunLoop(_, _, _)
\* flush(): `while (batches--) {...}` from the loop test up to the next
\* insertMany (result has a non-empty batch) or to the loop's end
RunLoop(st, buf, b) ==
    IF st.batches = 0 THEN [st EXCEPT !.batch = <<>>]
    ELSE LET avail == IF st.done THEN 0 ELSE Len(buf) - st.iter
             k == Min(b, avail)
             st1 == [st EXCEPT !.batches = st.batches - 1,
                               !.iter = st.iter + k,
                               !.done = st.done \/ avail < b,
                               !.batch = SubSeq(buf, st.iter + 1, st.iter + k)]
         IN IF k > 0 THEN st1 ELSE RunLoop(st1, buf, b)


\* ---------------------------------------------------------------- flush()
\* the caller resumes after `await this.flush()` / `this.flush()` returned:
\* send() returns (r is its outcome), stop() clears the timer and awaits
\* dbClient.close(), the housekeeping tick has nothing left to do
Return(p, r) == /\ pc' = [pc EXCEPT ![p] = IF p = "stop" THEN "close" ELSE "idle"]
                /\ timer' = IF p = "stop" THEN FALSE ELSE timer
                /\ res' = IF p \in Senders THEN [res EXCEPT ![p] = IdleRes] ELSE res
                /\ lastRes' = IF p \in Senders THEN r ELSE lastRes

\* flush() lines 138-158 from the loop test: either the next insertMany is
\* issued and the invocation is suspended in it, or the loop is over, the
\* deadline is reset, the flag is cleared and the caller resumes
Continue(p, st0, buf, ft, r) ==
    LET st == RunLoop(st0, buf, options.batchSize)
    IN IF st.batch # <<>>
       THEN /\ fl' = [ft EXCEPT ![p] = [st EXCEPT !.sizes = Append(st.sizes, Len(st.batch))]]
            /\ flushing' = TRUE
            /\ flushExpiry' = flushExpiry
            /\ calls' = Append(calls, Len(st.batch))
            /\ lastFlush' = lastFlush
            /\ pc' = [pc EXCEPT ![p] = "insert"]
            /\ timer' = timer
            /\ res' = IF p \in Senders THEN [res EXCEPT ![p] = r] ELSE res
            /\ lastRes' = lastRes
       ELSE /\ fl' = [ft EXCEPT ![p] = IdleFl]
            /\ flushing' = FALSE
            /\ flushExpiry' = now + flushMillis
            /\ calls' = calls
            /\ lastFlush' = [id |-> st.id, n0 |-> st.n0, sizes |-> st.sizes, arrived |-> st.arrived,
                             swept |-> st.swept, failed |-> FALSE, left |-> Len(buf), by |-> p]
            /\ Return(p, r)

\* flush() called by p when the buffer is buf and the connection flag is conn;
\* a tick whose flush() returns at once leaves the invocation of an earlier
\* tick, if one is still inside insertMany, where it is
CallFlush(p, buf, ft, r, conn) ==
    IF FlushSkips(flushing, conn)
    THEN /\ fl' = ft
         /\ UNCHANGED <<flushing, flushExpiry, calls, lastFlush>>
         /\ IF p = "tick"
            THEN UNCHANGED <<pc, timer, res, lastRes>>
            ELSE Return(p, [r EXCEPT !.flush = "skipped"])
    ELSE Continue(p, [IdleFl EXCEPT !.batches = BatchCount(Len(buf), options.batchSize),
                                       !.id = 1, !.n0 = Len(buf), !.snap = buf],
                     buf, ft, [r EXCEPT !.flush = "ran"])

\* ----------------------------------------------------------------- send()
\* send() lines 102-118, run at the current clock with connection flag conn
SendBody(p, x, r0, conn) ==
    LET pt == getPoint(x, now, ttlMillis)
        buf == Put(buffer, pt)
        ft == [q \in Procs |-> IF fl[q].id # 0 THEN [fl[q] EXCEPT !.arrived = TRUE] ELSE fl[q]]
        quiet == UNCHANGED <<buffer, fl, flushing, flushExpiry, calls, lastFlush>>
    IN IF ~conn
       THEN quiet /\ Return(p, [r0 EXCEPT !.err = "notconnected"])
       ELSE IF BufferExceeded(Len(buffer), options.maxBuffer)
       THEN quiet /\ Return(p, [r0 EXCEPT !.err = "capacity"])
       ELSE IF pt = NullPoint
       THEN quiet /\ Return(p, [r0 EXCEPT !.err = "serialize"])
       ELSE /\ buffer' = buf
            /\ IF ShouldFlush(Len(buf), options.batchSize, now, flushExpiry)
               THEN CallFlush(p, buf, ft, [r0 EXCEPT !.staged = TRUE], conn)
               ELSE /\ fl' = ft
                    /\ UNCHANGED <<flushing, flushExpiry, calls, lastFlush>>
                    /\ Return(p, [r0 EXCEPT !.staged = TRUE])

\* send(point) is called by handleUpdates (line 342, not awaited); plugin.stop
\* unsubscribes before it stops the engine (line 400), so no call follows it
Send(p, x) ==
    /\ pc[p] = "idle"
    /\ p = "s2" => pc["s1"] # "idle"
    /\ pc["start"] # "idle"
    /\ pc["stop"] = "idle"
    /\ sendsLeft > 0
    /\ sendsLeft' = sendsLeft - 1
    /\ IF ~isConnected
       THEN /\ pc' = [pc EXCEPT ![p] = "connect"]
            /\ attempt' = [attempt EXCEPT ![p] = 0]
            /\ arg' = [arg EXCEPT ![p] = x]
            /\ res' = [res EXCEPT ![p] = [IdleRes EXCEPT !.seqs = 1]]
            /\ UNCHANGED <<buffer, fl, flushing, flushExpiry, calls, lastFlush, timer, lastRes>>
       ELSE /\ SendBody(p, x, IdleRes, isConnected)
            /\ UNCHANGED <<attempt, arg>>
    /\ UNCHANGED <<now, options, ttlMillis, flushMillis, isConnected, wake, rejected, connFailsLeft>>

\* a variant of start(): the timer is armed before connect() is awaited
StartArmsFirst(o) ==
    /\ pc["start"] = "idle"
    /\ options' = o
    /\ timer' = TRUE
    /\ pc' = [pc EXCEPT !["start"] = "connect"]
    /\ attempt' = [attempt EXCEPT !["start"] = 0]
    /\ UNCHANGED <<now, ttlMillis, flushMillis, flushExpiry, flushing, isConnected, buffer, wake, arg,
                   fl, res, lastRes, calls, lastFlush, rejected, sendsLeft, connFailsLeft>>

\* -------------------------------------------------------------- connect()
\* start(options) is called by plugin.start (not awaited): lines 54-56
Start(o) ==
    /\ pc["start"] = "idle"
    /\ options' = o
    /\ pc' = [pc EXCEPT !["start"] = "connect"]
    /\ attempt' = [attempt EXCEPT !["start"] = 0]
    /\ UNCHANGED <<now, ttlMillis, flushMillis, flushExpiry, timer, flushing, isConnected, buffer, wake, arg,
                   fl, res, lastRes, calls, lastFlush, rejected, sendsLeft, connFailsLeft>>

\* dbClient.connect() of p's sequence succeeds: connect() returns, and the
\* caller goes on - start() lines 57-60, send() lines 102-118
ConnectOk(p) ==
    /\ pc[p] = "connect"
    /\ isConnected' = TRUE
    /\ attempt' = [attempt EXCEPT ![p] = 0]
    /\ IF p = "start"
       THEN /\ ttlMillis' = StartTtl(options, ttlMillis)
            /\ flushMillis' = StartFlushMillis(options, flushMillis)
            /\ flushExpiry' = now + StartFlushMillis(options, flushMillis)
            /\ timer' = TRUE
            /\ pc' = [pc EXCEPT ![p] = "done"]
            /\ UNCHANGED <<buffer, fl, flushing, calls, lastFlush, res, lastRes, arg>>
       ELSE /\ SendBody(p, arg[p], res[p], TRUE)
            /\ arg' = [arg EXCEPT ![p] = NoArg]
            /\ UNCHANGED <<ttlMillis, flushMillis>>
    /\ UNCHANGED <<now, options, wake, rejected, sendsLeft, connFailsLeft>>

\* dbClient.connect() of p's sequence fails: lines 40-49
ConnectFail(p) ==
    /\ pc[p] = "connect"
    /\ connFailsLeft > 0
    /\ connFailsLeft' = connFailsLeft - 1
    /\ IF LastAttempt(attempt[p])
       THEN /\ rejected' = rejected \cup {p}
            /\ pc' = [pc EXCEPT ![p] = IF p = "start" THEN "failed" ELSE "idle"]
            /\ attempt' = [attempt EXCEPT ![p] = 0]
            /\ res' = IF p \in Senders THEN [res EXCEPT ![p] = IdleRes] ELSE res
            /\ lastRes' = IF p \in Senders THEN [res[p] EXCEPT !.rejected = TRUE, !.err = "connect"] ELSE lastRes
            /\ arg' = IF p \in Senders THEN [arg EXCEPT ![p] = NoArg] ELSE arg
            /\ wake' = wake
       ELSE /\ pc' = [pc EXCEPT ![p] = "backoff"]
            /\ wake' = [wake EXCEPT ![p] = now + Delay(attempt[p])]
            /\ UNCHANGED <<rejected, attempt, res, lastRes, arg>>
    /\ UNCHANGED <<now, engine, fl, calls, lastFlush, sendsLeft>>

\* the back-off timer of p's sequence fires: the loop makes the next attempt
BackoffDone(p) ==
    /\ pc[p] = "backoff"
    /\ now >= wake[p]
    /\ pc' = [pc EXCEPT ![p] = "connect"]
    /\ attempt' = [attempt EXCEPT ![p] = attempt[p] + 1]
    /\ wake' = [wake EXCEPT ![p] = 0]
    /\ UNCHANGED <<now, engine, arg, fl, res, lastRes, calls, lastFlush, rejected, sendsLeft, connFailsLeft>>

\* ------------------------------------------------------------ insertMany
\* the insertMany of p's flush succeeds: lines 150-158
InsertOk(p) ==
    /\ pc[p] = "insert"
    /\ LET dead == Uids(fl[p].batch)
           buf == Remove(buffer, dead)
           ft == [q \in Procs |-> Shift(fl[q], buffer, dead)]
       IN /\ buffer' = buf
          /\ Continue(p, ft[p], buf, ft, IF p \in Senders THEN res[p] ELSE IdleRes)
    /\ UNCHANGED <<now, options, ttlMillis, flushMillis, isConnected, attempt, wake, arg, rejected,
                   sendsLeft, connFailsLeft>>

\* the insertMany of p's flush fails: the error leaves flush() at line 149;
\* send() catches it (line 113), stop() and the tick's flush() do not
InsertFail(p) ==
    /\ pc[p] = "insert"
    /\ fl' = [fl EXCEPT ![p] = IdleFl]
    /\ lastFlush' = [id |-> fl[p].id, n0 |-> fl[p].n0, sizes |-> fl[p].sizes, arrived |-> fl[p].arrived,
                     swept |-> fl[p].swept, failed |-> TRUE, left |-> Len(buffer), by |-> p]
    /\ pc' = [pc EXCEPT ![p] = IF p = "stop" THEN "failed" ELSE "idle"]
    /\ rejected' = IF p \in Senders THEN rejected ELSE rejected \cup {p}
    /\ res' = IF p \in Senders THEN [res EXCEPT ![p] = IdleRes] ELSE res
    /\ lastRes' = IF p \in Senders THEN [res[p] EXCEPT !.err = "flush"] ELSE lastRes
    /\ UNCHANGED <<now, engine, attempt, wake, arg, calls, sendsLeft, connFailsLeft>>

\* ---------------------------------------------------------- housekeeping
\* the interval timer fires: housekeeping() lines 121-131; the flush it
\* starts is not awaited and runs on as invocation "tick"
Housekeeping ==
    /\ timer
    /\ LET dead == ExpiredUids(buffer, now)
           buf == Remove(buffer, dead)
           ft == [q \in Procs |-> IF fl[q].id # 0
                                  THEN [Shift(fl[q], buffer, dead) EXCEPT !.swept = @ \/ dead # {}]
                                  ELSE fl[q]]
       IN /\ buffer' = buf
          /\ IF FlushDue(now, flushExpiry)
             THEN /\ FlushSkips(flushing, isConnected) \/ pc["tick"] = "idle"
                  /\ CallFlush("tick", buf, ft, IdleRes, isConnected)
             ELSE /\ fl' = ft
                  /\ UNCHANGED <<flushing, flushExpiry, calls, lastFlush, pc, timer, res, lastRes>>
    /\ UNCHANGED <<now, options, ttlMillis, flushMillis, isConnected, attempt, wake, arg, rejected,
                   sendsLeft, connFailsLeft>>

\* ----------------------------------------------------------------- stop()
\* stop() is called by plugin.stop (not awaited): line 64 onwards
Stop ==
    /\ pc["stop"] = "idle"
    /\ pc["start"] # "idle"
    /\ CallFlush("stop", buffer, fl, IdleRes, isConnected)
    /\ UNCHANGED <<now, options, ttlMillis, flushMillis, isConnected, buffer, attempt, wake, arg, rejected,
                   sendsLeft, connFailsLeft>>

\* dbClient.close() returns: lines 71-72
CloseDone ==
    /\ pc["stop"] = "close"
    /\ isConnected' = FALSE
    /\ pc' = [pc EXCEPT !["stop"] = "done"]
    /\ UNCHANGED <<now, options, ttlMillis, flushMillis, flushExpiry, timer, flushing, buffer, attempt, wake,
                   arg, fl, res, lastRes, calls, lastFlush, rejected, sendsLeft, connFailsLeft>>

\* ---------------------------------------------------------------- clock
\* one second passes
Advance ==
    /\ now < MaxTime * Millis
    /\ now' = now + Millis
    /\ UNCHANGED <<engine, pc, attempt, wake, arg, fl, res, lastRes, calls, lastFlush, rejected, sendsLeft,
                   connFailsLeft>>

\* time passes until the back-off timer of p's connect sequence is due
AdvanceToWake(p) ==
    /\ pc[p] = "backoff"
    /\ wake[p] > now
    /\ now' = wake[p]
    /\ UNCHANGED <<engine, pc, attempt, wake, arg, fl, res, lastRes, calls, lastFlush, rejected, sendsLeft,
                   connFailsLeft>>

Next == \/ \E o \in Configs : Start(o)
        \/ \E p \in Senders, x \in Payloads : Send(p, x)
        \/ \E p \in Procs : ConnectOk(p)
        \/ \E p \in Procs : ConnectFail(p)
        \/ \E p \in Procs : BackoffDone(p)
        \/ \E p \in Procs : InsertOk(p)
        \/ \E p \in Procs : InsertFail(p)
        \/ Housekeeping
        \/ Stop
        \/ CloseDone
        \/ Advance
        \/ \E p \in Procs : AdvanceToWake(p)

Spec == Init /\ [][Next]_vars

\* a long outage: the store can fail one whole connect sequence
\* (retryCount + 1 attempts) while the engine is started and a record is sent
InitOutage == /\ Constructed
              /\ sendsLeft = 1
              /\ connFailsLeft = retryCount + 1

SpecOutage == InitOutage /\ [][Next]_vars

\* ------------------------------------------------- a buffer already loaded
\* The engine some time after start(): connected, timer armed, no flush
\* running, and n records staged at the current clock.  (With maxBuffer 5
\* and batchSize 2 the code gets there when three records arrive while the
\* insertMany of the first two is in flight and that flush then ends.)
\* The history variables record what happens from here on.
LoadedConfigs == {E2EConfig, [E2EConfig EXCEPT !.flushSecs = 1]}

Staged(n, o) == [i \in 1..n |-> getPoint(E2ERecords[i], 0, StartTtl(o, defaultTtlMillis))]

InitLoaded ==
        /\ now = 0
        /\ options \in LoadedConfigs
        /\ ttlMillis = StartTtl(options, defaultTtlMillis)
        /\ flushMillis = StartFlushMillis(options, 0)
        /\ flushExpiry = now + flushMillis
        /\ timer = TRUE
        /\ flushing = FALSE
        /\ isConnected = TRUE
        /\ buffer \in {Staged(n, options) : n \in 1..Len(E2ERecords)}
        /\ pc = [p \in Procs |-> IF p = "start" THEN "done" ELSE "idle"]
        /\ attempt = [p \in Procs |-> 0]
        /\ wake = [p \in Procs |-> 0]
        /\ arg = [p \in Senders |-> NoArg]
        /\ fl = [p \in Procs |-> IdleFl]
        /\ res = [p \in Senders |-> IdleRes]
        /\ lastRes = IdleRes
        /\ calls = <<>>
        /\ lastFlush = NoFlush
        /\ rejected = {}
        /\ sendsLeft = MaxSends
        /\ connFailsLeft = 0

NextLoaded ==
        \/ \E p \in Senders, x \in Payloads : Send(p, x)
        \/ \E p \in Procs : InsertOk(p)
        \/ \E p \in Procs : InsertFail(p)
        \/ Housekeeping
        \/ Stop
        \/ CloseDone
        \/ Advance

SpecLoaded == InitLoaded /\ [][NextLoaded]_vars

\* ------------------------------------------------ the end-to-end scenario
\* start(E2EConfig) against a reachable store, then send(A), send(B),
\* send(C), each awaited, then stop(); the housekeeping timer runs
InitE2E == /\ Constructed
           /\ sendsLeft = Len(E2ERecords)
           /\ connFailsLeft = 0

E2EStart == Start(E2EConfig)

E2EConnect == ConnectOk("start")

E2ESend == /\ pc["start"] = "done"
           /\ sendsLeft > 0
           /\ Send("s1", E2ERecords[Len(E2ERecords) - sendsLeft + 1])

E2EStop == /\ sendsLeft = 0
           /\ pc["s1"] = "idle"
           /\ Stop

NextE2E ==
        \/ E2EStart
        \/ E2EConnect
        \/ E2ESend
        \/ \E p \in Procs : InsertOk(p)
        \/ Housekeeping
        \/ E2EStop
        \/ CloseDone
        \/ Advance

SpecE2E == InitE2E /\ [][NextE2E]_vars

\* ------------------------------------------------------ a burst of sends
\* start(BurstConfig) against a store that accepts the connection: the
\* buffer has room for a record beyond the one a flush is inserting, so a
\* send() can stage while an insertMany is in flight
InitBurst == /\ Constructed
             /\ sendsLeft = MaxSends
             /\ connFailsLeft = 0

NextBurst ==
        \/ Start(BurstConfig)
        \/ \E p \in Senders, x \in Payloads : Send(p, x)
        \/ \E p \in Procs : ConnectOk(p)
        \/ \E p \in Procs : InsertOk(p)
        \/ \E p \in Procs : InsertFail(p)
        \/ Housekeeping
        \/ Stop
        \/ CloseDone
        \/ Advance

SpecBurst == InitBurst /\ [][NextBurst]_vars

\* ------------------------------------------------ the periodic flush, timed
\* start(LiveConfig): a flush interval of 1 s and a time-to-live of 3 s,
\* which exceeds the flush interval plus the tick interval (the clock's
\* step).  The store accepts every connection and every write and answers
\* before the clock moves; the housekeeping timer fires at least once per
\* clock step, so the clock moves only when a tick would find nothing to
\* do; stop() is not called; sends stop after MaxTime seconds and the clock
\* runs LiveSettle seconds longer.
LiveSettle == LiveConfig.flushSecs + 1

\* a housekeeping tick now would sweep a record or start a flush
TickHasWork == /\ timer
               /\ \/ ExpiredUids(buffer, now) # {}
                  \/ FlushDue(now, flushExpiry) /\ ~FlushSkips(flushing, isConnected)

InitLive == /\ Constructed
            /\ sendsLeft = MaxSends
            /\ connFailsLeft = 0

LiveSend == /\ now <= MaxTime * Millis
            /\ \E p \in Senders, x \in Payloads : Send(p, x)

AdvanceLive ==
    /\ now < (MaxTime + LiveSettle) * Millis
    /\ \A p \in Procs : pc[p] \notin {"connect", "insert"}
    /\ ~TickHasWork
    /\ now' = now + Millis
    /\ UNCHANGED <<engine, pc, attempt, wake, arg, fl, res, lastRes, calls, lastFlush, rejected, sendsLeft,
                   connFailsLeft>>

NextLive ==
        \/ Start(LiveConfig)
        \/ LiveSend
        \/ \E p \in Procs : ConnectOk(p)
        \/ \E p \in Procs : InsertOk(p)
        \/ Housekeeping
        \/ AdvanceLive

\* the event loop runs every callback that is ready: connection attempts
\* and writes are answered, the interval timer fires, time passes
SpecLive == /\ InitLive
            /\ [][NextLive]_vars
            /\ WF_vars(\E p \in Procs : ConnectOk(p))
            /\ WF_vars(\E p \in Procs : InsertOk(p))
            /\ WF_vars(Housekeeping)
            /\ WF_vars(AdvanceLive)

\* ----------------------------------------------------------------- claims
\* a send() body (lines 102-118) runs for slot p in this step
BodyRuns(p) == \/ isConnected /\ pc[p] = "idle" /\ sendsLeft' < sendsLeft /\ \E x \in Payloads : Send(p, x)
               \/ pc[p] = "connect" /\ ConnectOk(p)

\* C1: at most one flush executes at any time: no two flush() invocations
\* are ever inside insertMany together, the invocation that is inside
\* insertMany holds the flushing flag, and an invocation made meanwhile has
\* returned without reaching insertMany
C1_OneFlushAtATime ==
        /\ Cardinality({p \in Procs : pc[p] = "insert"}) <= 1
        /\ \A p \in Procs : pc[p] = "insert" => flushing /\ fl[p].batch # <<>>
        /\ \A p \in Procs : fl[p].id # 0 <=> pc[p] = "insert"

\* C1 witness: a send() called flush() while the insertMany of the first
\* flush of the run was still in flight, and its flush() returned at once
C1_SkippedWhileFlushing ==
        /\ lastRes.flush = "skipped"
        /\ lastFlush = NoFlush
        /\ \E p \in Procs : pc[p] = "insert"

\* C2: the buffer never holds more than options.maxBuffer entries, and a
\* send() body that runs when the size has reached maxBuffer ends with the
\* capacity error, stages nothing and leaves every entry as it was
C2_CapacityBound ==
        /\ [](Len(buffer) <= options.maxBuffer)
        /\ [][\A p \in Senders :
                BodyRuns(p) /\ Len(buffer) >= options.maxBuffer
                => /\ buffer' = buffer
                   /\ lastRes'.err = "capacity"
                   /\ ~lastRes'.staged
                   /\ pc'[p] = "idle"]_vars

\* C2 witness: a send() was turned away with the capacity error and the
\* buffer holds exactly maxBuffer entries
C2_RejectedAtCapacity ==
        /\ lastRes.err = "capacity"
        /\ options.maxBuffer > 0
        /\ Len(buffer) = options.maxBuffer

\* C3: no error escapes from send(): whatever happens (connection attempts
\* exhausted, buffer full, insertMany failing in the flush it started,
\* serialization failing) the promise of a send() call is never rejected
C3_NoErrorEscapesSend == \A p \in Senders : p \notin rejected

\* a flush trigger fires in this step while the engine is connected, the
\* buffer is not empty and no invocation is inside insertMany: a tick past
\* the flush deadline, or a send() that staged its record and called flush()
FlushTriggered ==
        /\ isConnected'
        /\ buffer' # <<>>
        /\ \A q \in Procs : pc[q] # "insert"
        /\ \/ Housekeeping /\ FlushDue(now, flushExpiry)
           \/ \E p \in Senders : BodyRuns(p) /\ (pc'[p] = "insert" \/ lastRes'.flush # "none")

\* C4: a bulk-insert failure does not halt ingestion: flushing is never
\* permanently disabled, every flush trigger that fires while connected
\* with a non-empty buffer (and no insertMany in flight) issues a bulk insert
C4_FlushNotHalted == [][FlushTriggered => Len(calls') > Len(calls)]_vars

\* the send() body of slot p runs in this step for payload x
BodyRunsFor(p, x) == \/ isConnected /\ pc[p] = "idle" /\ sendsLeft' < sendsLeft /\ Send(p, x)
                     \/ pc[p] = "connect" /\ arg[p] = x /\ ConnectOk(p)

\* the record send() makes of payload x in this step is in the buffer after it
StagedNow(x) == \E i \in 1..Len(buffer') : /\ buffer'[i].value = x.value
                                            /\ buffer'[i].expiry = now + ttlMillis

\* connect() of slot p gives up in this step: its last attempt fails
GivesUp(p) == ConnectFail(p) /\ attempt[p] = retryCount

\* a send() made while disconnected starts one connect sequence and stages
\* nothing before it ends; a failed attempt that is not the last is retried
\* in the same sequence; when the sequence fails the send() ends with
\* nothing staged, the buffer and the connection flag as they were
OneConnectSequence(p) ==
        /\ (~isConnected /\ \E x \in Payloads : Send(p, x))
           => pc'[p] = "connect" /\ attempt'[p] = 0 /\ res'[p].seqs = 1 /\ buffer' = buffer
        /\ (ConnectFail(p) /\ attempt[p] < retryCount)
           => pc'[p] = "backoff" /\ res'[p].seqs = 1 /\ buffer' = buffer
        /\ GivesUp(p)
           => /\ pc'[p] = "idle"
              /\ lastRes'.seqs = 1
              /\ ~lastRes'.staged
              /\ buffer' = buffer
              /\ isConnected' = isConnected

C6_Dedup ==
        \A i, j \in 1..Len(buffer) :
            buffer[i].value = buffer[j].value => buffer[i].uid = buffer[j].uid /\ i = j

\* C7: a record staged with time-to-live ttlMillis is in the buffer, with
\* expiry = staging time + ttlMillis, as soon as send() has staged it; and a
\* housekeeping sweep at time now removes exactly the entries whose expiry
\* is before now (so every entry staged more than ttlMillis ago is gone
\* after it) and no other entry
C7_TtlExpiry ==
        [][/\ \A p \in Senders, x \in Payloads :
                (res'[p].staged \/ (pc'[p] = "idle" /\ lastRes'.staged)) /\ BodyRunsFor(p, x)
                => StagedNow(x)
           /\ (timer /\ now' = now /\ Housekeeping)
                => buffer' = SelectSeq(buffer, LAMBDA q : ~(q.expiry < now))]_vars

\* C7 witness: a record was staged, no insertMany was ever issued, and a
\* sweep has emptied the buffer
C7_SweptUnflushed ==
        /\ lastRes.staged
        /\ calls = <<>>
        /\ buffer = <<>>
        /\ now > ttlMillis

\* ceil(n / b), and the batch sizes of n records taken b at a time
CeilDiv(n, b) == IF n % b = 0 THEN n \div b ELSE (n \div b) + 1
ExpectedSizes(n, b) == [i \in 1..CeilDiv(n, b) |-> IF i < CeilDiv(n, b) THEN b ELSE n - (b * (CeilDiv(n, b) - 1))]
IsPrefix(s, t) == Len(s) <= Len(t) /\ s = SubSeq(t, 1, Len(s))

\* a flush() that has ended, started with n0 > 0 records, whose insertMany
\* calls all succeeded: it issued ceil(n0 / b) calls of b documents each
\* (the last one the remainder) and left the buffer empty
EndedAsExpected ==
        /\ lastFlush.sizes = ExpectedSizes(lastFlush.n0, options.batchSize)
        /\ lastFlush.left = 0

\* a flush() inside insertMany: the calls it has issued are the first of
\* the expected ones, and the batch it is inserting is the next batchSize
\* records, in insertion order, of the buffer it started with
RunsAsExpected(p) ==
        LET taken == options.batchSize * (Len(fl[p].sizes) - 1)
        IN /\ IsPrefix(fl[p].sizes, ExpectedSizes(fl[p].n0, options.batchSize))
           /\ taken + Len(fl[p].batch) <= Len(fl[p].snap)
           /\ fl[p].batch = SubSeq(fl[p].snap, taken + 1, taken + Len(fl[p].batch))

\* C8 (as amended): with a reachable store, no record arriving during the
\* flush and no expiry sweep removing a record during the flush, a flush()
\* started with n > 0 records issues exactly ceil(n/b) insertMany calls,
\* taking records in insertion order, b documents per call except the last
\* with n - b*(ceil(n/b) - 1), and leaves the buffer empty
C8_FlushDeterminism ==
        /\ (lastFlush.n0 > 0 /\ ~lastFlush.failed /\ ~lastFlush.arrived /\ ~lastFlush.swept)
           => EndedAsExpected
        /\ \A p \in Procs : (pc[p] = "insert" /\ ~fl[p].arrived /\ ~fl[p].swept)
                              => RunsAsExpected(p)

\* C8 witness: a flush() started with three records and batchSize 2 has
\* ended, undisturbed, after calls of 2 and 1 documents
C8_TwoThenOne ==
        /\ lastFlush.n0 = 3
        /\ lastFlush.sizes = <<2, 1>>
        /\ lastFlush.left = 0
        /\ ~lastFlush.failed /\ ~lastFlush.arrived /\ ~lastFlush.swept

\* C8 as stated: the same with a reachable store and no record arriving
\* during the flush as the only provisos
C8_FlushDeterminismAsStated ==
        /\ (lastFlush.n0 > 0 /\ ~lastFlush.failed /\ ~lastFlush.arrived)
           => EndedAsExpected
        /\ \A p \in Procs : (pc[p] = "insert" /\ ~fl[p].arrived)
                              => RunsAsExpected(p)

\* the values of the records in a buffer
Values(buf) == {buf[i].value : i \in 1..Len(buf)}

\* C9: end to end with batchSize 2, maxBuffer 5, flushSecs 0 and a reachable
\* store: once send(A) has returned nothing has been flushed; once send(B)
\* has returned one insertMany of {A, B} has been issued; once send(C) has
\* returned the buffer is {C}; and once stop() has flushed, the store has
\* received two insertMany calls of 3 documents in all and the buffer is empty
C9_EndToEnd ==
        /\ (sendsLeft = 2 /\ pc["s1"] = "idle") => (calls = <<>> /\ Values(buffer) = {65})
        /\ (sendsLeft = 1 /\ pc["s1"] = "idle") => (calls = <<2>> /\ buffer = <<>>)
        /\ (sendsLeft = 0 /\ pc["s1"] = "idle" /\ pc["stop"] = "idle")
           => (calls = <<2>> /\ Values(buffer) = {67})
        /\ pc["stop"] \in {"close", "done"} => (calls = <<2, 1>> /\ buffer = <<>>)

\* C10: with flushSecs = 0 the deadline starts no flush: a flush() that a
\* send() or a housekeeping tick starts (one that is running, or the one
\* that ended last) found at least batchSize records in the buffer
C10_IntervalZeroNoDeadlineFlush ==
        (options # NoOptions /\ options.flushSecs = 0)
        => /\ \A p \in Senders \cup {"tick"} : fl[p].id # 0 => fl[p].n0 >= options.batchSize
           /\ (lastFlush.id # 0 /\ lastFlush.by \in Senders \cup {"tick"})
              => lastFlush.n0 >= options.batchSize

\* no insertMany has failed so far: a failed one leaves the flag set with
\* no invocation inside insertMany
StoreReachable == ~(flushing /\ \A p \in Procs : pc[p] # "insert")

\* C11: stop() disarms the periodic tick before its final flush and closes
\* the connection after it: from the moment stop() has begun the tick is
\* disarmed (no housekeeping can run), and when stop() has returned with a
\* reachable store the tick is disarmed, the engine is disconnected and
\* nothing remains in the buffer
C11_StopDisarmsThenFlushes ==
        /\ pc["stop"] # "idle" => ~timer
        /\ (pc["stop"] = "done" /\ StoreReachable) => (~timer /\ ~isConnected /\ buffer = <<>>)

\* C12: stop() never closes the connection while an insertMany of an
\* in-flight flush is outstanding: once stop() has called dbClient.close()
\* (and until something connects again) no invocation is inside insertMany
C12_NoCloseDuringInsert ==
        (pc["stop"] = "close" \/ (pc["stop"] = "done" /\ ~isConnected))
        => \A p \in Procs : pc[p] # "insert"

\* C13: connect() makes at most retryCount connection attempts (the
\* attempt in progress, numbered from 0, is never beyond the retryCount-th),
\* stops at the first success, and after the last failed attempt fails
\* leaving the engine disconnected
C13_AtMostMaxAttempts ==
        \A p \in Procs : pc[p] \in {"connect", "backoff"} => attempt[p] + 1 <= retryCount

\* C14: connection exhaustion is fatal to start(): when the last attempt of
\* start()'s connect sequence fails, start() ends rejected with the timer
\* not armed and the connection flag as it was (disconnected unless a
\* send() has connected meanwhile); and the timer is armed only once
\* start()'s connect has succeeded
C14_StartFailsUnarmed ==
        /\ [](timer => pc["start"] = "done")
        /\ [](pc["start"] = "failed" => "start" \in rejected /\ ~timer)
        /\ [][GivesUp("start") => /\ pc'["start"] = "failed"
                                  /\ isConnected' = isConnected
                                  /\ ~timer']_vars

\* C14 witness: start() has failed after all its attempts, the timer is
\* not armed and the engine is disconnected
C14_StartGaveUp ==
        /\ pc["start"] = "failed"
        /\ "start" \in rejected
        /\ ~timer
        /\ ~isConnected

\* C15: data older than its time-to-live is not sent: no insertMany call
\* issued at time now carries a record whose expiry is before now,
\* whichever trigger started the flush
C15_NoExpiredRecordSent ==
        [][\A p \in Procs :
            (pc'[p] = "insert" /\ Len(calls') > Len(calls))
            => \A i \in 1..Len(fl'[p].batch) : ~(fl'[p].batch[i].expiry < now)]_vars

\* C16: maxBuffer is the number of entries held before a forced flush:
\* whenever a send() body finds the buffer holding maxBuffer entries while
\* connected, that step starts a flush (issues an insertMany)
C16_FullBufferForcesFlush ==
        [][\A p \in Senders :
            (BodyRuns(p) /\ Len(buffer) >= options.maxBuffer)
            => Len(calls') > Len(calls)]_vars

\* C17: a failure of an insertMany issued by a flush that the housekeeping
\* tick started is caught: the tick's flush() promise is never rejected
C17_TickFlushFailureCaught == "tick" \notin rejected

\* the flush() invocation of p ends in this step (insertMany resolved and
\* the loop is over, or insertMany failed)
FlushEnds(p) == pc[p] = "insert" /\ pc'[p] # "insert"

\* C18: every flush() that set the flushing flag ends, whether its inserts
\* succeeded or one failed, with flushing = false and
\* flushExpiry = time of exit + flushMillis
C18_FlushAlwaysResets ==
        [][\A p \in Procs : FlushEnds(p) => (~flushing' /\ flushExpiry' = now + flushMillis)]_vars

\* C19: when insertMany fails for a batch, the invocation issues no further
\* call, the records of the failed batch are no longer in the buffer
\* afterwards, and the records it had not yet drained stay in the buffer
C19_FailedBatchDropped ==
        [][\A p \in Procs :
            (pc[p] = "insert" /\ InsertFail(p))
            => /\ calls' = calls
               /\ pc'[p] # "insert"
               /\ Uids(fl[p].batch) \cap Uids(buffer') = {}
               /\ Uids(buffer) \ Uids(fl[p].batch) \subseteq Uids(buffer')]_vars

\* C20: a record staged while a flush is in progress is never part of an
\* insertMany call of that invocation: every batch being inserted consists
\* of records the buffer held when the invocation started
C20_ArrivalsWaitForNextFlush ==
        \A p \in Procs : pc[p] = "insert"
            => \A i \in 1..Len(fl[p].batch) : fl[p].batch[i].uid \in Uids(fl[p].snap)

\* C21: the batch count is fixed when flush() starts: an invocation that
\* started with s records never issues more than ceil(s / batchSize)
\* insertMany calls, whatever arrives meanwhile; the calls it has issued plus
\* the loop iterations it has left never exceed that number, and every
\* insertMany that returns leaves it with fewer iterations, so it ends
C21_BatchCountFixedAtStart ==
        /\ [](\A p \in Procs : pc[p] = "insert"
                => Len(fl[p].sizes) + fl[p].batches <= CeilDiv(fl[p].n0, options.batchSize))
        /\ [](lastFlush.id # 0 => Len(lastFlush.sizes) <= CeilDiv(lastFlush.n0, options.batchSize))
        /\ [][\A p \in Procs : (pc[p] = "insert" /\ pc'[p] = "insert" /\ fl'[p] # fl[p] /\ InsertOk(p))
                => fl'[p].batches < fl[p].batches]_vars

\* C21 witness: a flush() that started with two records (one batch) has
\* ended after its one insertMany although a record arrived meanwhile; the
\* arrival is still in the buffer
C21_ArrivalLeftBehind ==
        /\ lastFlush.n0 = 2
        /\ lastFlush.sizes = <<2>>
        /\ lastFlush.arrived
        /\ ~lastFlush.failed
        /\ lastFlush.left = 1

\* C22: the drain is eager: while an insertMany call is outstanding none of
\* the records of its batch is in the buffer (so they do not count toward
\* the buffer's size and no put or sweep can touch them)
C22_EagerDrain ==
        \A p \in Procs : pc[p] = "insert" => Uids(fl[p].batch) \cap Uids(buffer) = {}

\* this step starts no connection attempt and no insertMany and leaves the
\* flushing flag, the flush deadline and the connection flag as they were
FlushDidNothing ==
        /\ calls' = calls
        /\ flushing' = flushing
        /\ flushExpiry' = flushExpiry
        /\ isConnected' = isConnected
        /\ attempt' = attempt
        /\ \A q \in Procs : pc'[q] \in {"connect", "insert"} => pc'[q] = pc[q]

\* C23: flush() called while flushing is set or while disconnected does
\* nothing: called by stop() it leaves the whole buffer, the flag and the
\* deadline as they are, called by a tick it leaves the buffer as the sweep
\* left it, called by send() it leaves what send() staged; in each case no
\* connection attempt and no insertMany is made.  And no step of a flush
\* (its start, an insertMany returning or failing) changes isConnected
C23_FlushNoOp ==
        [][/\ (pc["stop"] = "idle" /\ (flushing \/ ~isConnected) /\ Stop)
                => (FlushDidNothing /\ buffer' = buffer)
           /\ (timer /\ now' = now /\ (flushing \/ ~isConnected) /\ Housekeeping)
                => (FlushDidNothing /\ buffer' = SelectSeq(buffer, LAMBDA q : ~(now > q.expiry)))
           /\ \A p \in Senders : (flushing /\ BodyRuns(p))
                => (calls' = calls /\ flushing' /\ flushExpiry' = flushExpiry /\ pc'[p] = "idle")
           /\ (\/ pc["stop"] = "idle" /\ Stop
               \/ timer /\ now' = now /\ Housekeeping
               \/ \E p \in Procs : pc[p] = "insert" /\ (InsertOk(p) \/ InsertFail(p)))
                => isConnected' = isConnected]_vars

\* C23 witness: stop() called flush() while the engine was disconnected and
\* has gone on to close: nothing was inserted, the flag is clear
C23_StopFlushedDisconnected ==
        /\ pc["stop"] = "close"
        /\ ~isConnected
        /\ ~flushing
        /\ calls = <<>>
        /\ now > 0

\* C24 (as amended): while the engine is connected and the flushing flag is
\* clear (no flush in progress, no insertMany has failed) the buffer holds
\* batchSize records or more only when records arrived during the flush
\* that ended last: that flush left them for the next trigger
C24_OverThresholdOnlyAfterArrivals ==
        (isConnected /\ ~flushing /\ options # NoOptions /\ Len(buffer) >= options.batchSize)
        => (lastFlush.id # 0 /\ lastFlush.arrived)

\* C24 witness: connected, no flush in progress, no insertMany failed, and
\* the buffer holds batchSize records that arrived during the last flush
C24_LeftOverThreshold ==
        /\ isConnected
        /\ ~flushing
        /\ options = BurstConfig
        /\ Len(buffer) >= options.batchSize
        /\ lastFlush.arrived
        /\ ~lastFlush.failed

\* C24 as stated: in every state with no flush in progress, connected and
\* no failed insert, the buffer holds fewer than batchSize records
C24_BelowThresholdWhenIdle ==
        (isConnected /\ ~flushing /\ options # NoOptions) => Len(buffer) < options.batchSize

\* the records of a sequence
Records(s) == {s[i] : i \in 1..Len(s)}

\* C25: a staged record leaves the buffer in two ways only: an insertMany
\* whose batch contained it has returned successfully, or a housekeeping
\* sweep ran when its expiry was before now; every other step (a send
\* staging another record or turned away, a failed or skipped flush, a
\* connection attempt, a tick before the expiry, stop) leaves it in place
C25_TwoWaysOut ==
        [][\A r \in Records(buffer) :
            \/ r \in Records(buffer')
            \/ \E p \in Procs : pc[p] = "insert" /\ r \in Records(fl[p].batch) /\ InsertOk(p)
            \/ r.expiry < now /\ timer /\ now' = now /\ Housekeeping]_vars

\* C25 witness: an insertMany has failed and a later send() was turned away
\* for capacity, and the records of the failed flush are all still buffered
C25_StillBuffered ==
        /\ lastFlush.failed
        /\ lastFlush.left > 0
        /\ Len(buffer) = lastFlush.left
        /\ lastRes.err = "capacity"

\* C26: a record removed by the expiry sweep is never written to the store:
\* the batch of an outstanding insertMany holds no record that has expired
\* and is no longer in the buffer (when a sweep removes a record, no
\* outstanding call contains it)
C26_SweptNeverWritten ==
        \A p \in Procs : pc[p] = "insert"
            => \A r \in Records(fl[p].batch) : (r.expiry < now /\ fl[p].swept) => r \in Records(buffer)

\* C27: a housekeeping tick sweeps first and calls flush() afterwards, and
\* calls it exactly when now > flushExpiry: a tick at or before the deadline
\* starts nothing and leaves the flag and the deadline alone; a tick past it
\* (connected, no flush running) runs flush(), which issues an insertMany or,
\* on an empty buffer, just resets the deadline; and the first batch of the
\* flush it starts is made of records the sweep left in the buffer, none of
\* them expired at the time of the tick
C27_SweepThenFlush ==
        [][(timer /\ now' = now /\ Housekeeping)
            => /\ ~(now > flushExpiry)
                    => (calls' = calls /\ flushing' = flushing /\ flushExpiry' = flushExpiry /\ pc' = pc)
               /\ (now > flushExpiry /\ ~flushing /\ isConnected)
                    => \/ pc'["tick"] = "insert" /\ Len(calls') = Len(calls) + 1
                       \/ buffer' = <<>> /\ calls' = calls /\ flushExpiry' = now + flushMillis
               /\ pc'["tick"] = "insert" /\ pc["tick"] # "insert"
                    => \A r \in Records(fl'["tick"].batch) : r \in Records(buffer') /\ ~(r.expiry < now)]_vars

\* C27 witness: a flush started by a tick past the deadline is inside its
\* first insertMany, and no record of the batch has expired
C27_TickFlushRunning ==
        /\ pc["tick"] = "insert"
        /\ Len(fl["tick"].sizes) = 1
        /\ now > 0
        /\ \A r \in Records(fl["tick"].batch) : ~(r.expiry < now)

\* the send() body run by slot p in this step has staged its record
StagedBy(p) == res'[p].staged \/ (pc'[p] = "idle" /\ lastRes'.staged)

\* C28: a send() that stages its record while connected and then finds
\* size >= batchSize or now > flushExpiry starts a flush in the same step
\* unless a flush is in progress (an invocation is inside insertMany), and
\* stays suspended in it until the flush has ended; a send() that is turned
\* away (capacity, not connected) starts no flush
C28_SendFlushesBeforeReturn ==
        [][\A p \in Senders :
            /\ (/\ \A q \in Procs : pc[q] # "insert"
                /\ StagedBy(p)
                /\ (Len(buffer') >= options.batchSize \/ now > flushExpiry)
                /\ BodyRuns(p))
               => (pc'[p] = "insert" /\ Len(calls') = Len(calls) + 1)
            /\ (pc'[p] = "idle" /\ lastRes'.err \in {"capacity", "notconnected"} /\ BodyRuns(p))
               => (calls' = calls /\ flushing' = flushing /\ buffer' = buffer)]_vars

\* C29: every insertMany call carries between 1 and batchSize documents,
\* each of them in the buffer at the moment the batch is assembled and the
\* call issued; at most one call is issued per step, and a step that ends
\* with an empty buffer (a flush() on an empty buffer) issues none
C29_BatchWithinBounds ==
        /\ [](\A i \in 1..Len(calls) : 1 <= calls[i] /\ calls[i] <= options.batchSize)
        /\ [](\A p \in Procs : pc[p] = "insert"
                => 1 <= Len(fl[p].batch) /\ Len(fl[p].batch) <= options.batchSize)
        /\ [][/\ calls' # calls
                => /\ Len(calls') = Len(calls) + 1
                   /\ \E p \in Procs : /\ pc'[p] = "insert"
                                       /\ Len(fl'[p].batch) = calls'[Len(calls')]
                                       /\ Records(fl'[p].batch) \subseteq Records(buffer')
              /\ buffer' = <<>> => calls' = calls]_vars

\* C29 witness: with batchSize 2 a full batch of 2 was inserted and the
\* call now outstanding carries the one record that remained
C29_FullThenPartial ==
        /\ options.batchSize = 2
        /\ calls = <<2, 1>>
        /\ \E p \in Procs : pc[p] = "insert" /\ Len(fl[p].batch) = 1 /\ Len(buffer) = 1

\* C30: exponential back-off: when attempt k (counted from 0) of a connect
\* sequence fails and is not the last, the next attempt is due
\* retryDelay * 2^k after the failure (1000, 2000, 4000, ... ms); the next
\* attempt, numbered k + 1, starts only once that time has come; and the
\* failure of the last attempt ends the sequence at once, with no wait
C30_ExponentialBackoff ==
        [][\A p \in Procs :
            /\ (pc[p] = "connect" /\ pc'[p] = "backoff")
               => (wake'[p] = now + (retryDelay * (2 ^ attempt[p])) /\ attempt'[p] = attempt[p])
            /\ (pc[p] = "backoff" /\ pc'[p] # "backoff")
               => (now >= wake[p] /\ pc'[p] = "connect" /\ attempt'[p] = attempt[p] + 1)
            /\ (pc[p] = "connect" /\ p \in rejected' /\ p \notin rejected)
               => (pc'[p] \notin {"backoff", "connect"} /\ wake' = wake /\ now' = now)]_vars

\* C30 witness: start() has failed 31 seconds after it began: the five waits
\* of 1, 2, 4, 8 and 16 seconds, and none after the last failure
C30_GaveUpAfterFiveWaits ==
        /\ pc["start"] = "failed"
        /\ wake["start"] = 0
        /\ now = retryDelay * 31

\* every record send() can stage in the timed scenario
LiveRecords == {getPoint(x, t * Millis, ttl) : x \in {y \in Payloads : y.value # BadValue},
                                               t \in 0..MaxTime,
                                               ttl \in {defaultTtlMillis, StartTtl(LiveConfig, defaultTtlMillis)}}

\* record r is in the batch of an insertMany call that has been issued
Issued(r) == \E p \in Procs : pc[p] = "insert" /\ r \in Records(fl[p].batch)

C32_WrittenOnce ==
        /\ [](Cardinality({p \in Procs : pc[p] = "insert"}) <= 1)
        /\ [][\A p \in Procs :
                /\ (calls' # calls /\ pc'[p] = "insert")
                   => /\ Records(fl'[p].batch) \subseteq Records(buffer')
                      /\ pc[p] = "insert" => Uids(fl'[p].batch) \cap Uids(fl[p].batch) = {}
                /\ (pc[p] = "insert" /\ calls' # calls)
                   => Uids(fl[p].batch) \cap Uids(buffer') = {}
                /\ (pc[p] = "insert" /\ pc'[p] # "insert" /\ ~flushing')
                   => Uids(fl[p].batch) \cap Uids(buffer') = {}]_vars
        /\ [][(flushing /\ \A p \in Procs : pc[p] # "insert") => calls' = calls]_vars

\* C32 witness: an insertMany failed, its record is still staged, a later
\* send() staged another record and called flush(), and no second call was
\* ever issued
C32_NoRetryAfterFailure ==
        /\ lastFlush.failed
        /\ lastRes.flush = "skipped"
        /\ lastRes.staged
        /\ Len(calls) = 1
        /\ Len(buffer) > lastFlush.left

\* C33: at most one connect sequence is in progress at any time: when
\* start() and a send(), or several sends, find the engine disconnected,
\* only one of them is trying to connect or waiting to retry
C33_OneConnectSequence ==
        Cardinality({p \in Procs : pc[p] \in {"connect", "backoff"}}) <= 1

\* C34: once stop() has completed the engine stays stopped: it remains
\* disconnected, and no step issues an insertMany or starts a connection
\* attempt, also when a send() or start() that began before stop() resumes
C34_StaysStopped ==
        /\ [](pc["stop"] = "done" => ~isConnected)
        /\ [][pc["stop"] = "done"
                => /\ calls' = calls
                   /\ \A p \in Procs : pc'[p] = "connect" => pc[p] = "connect"]_vars

\* ---------------------------------------------- a long outage, fair runs
\* The runs of the long outage in which the event loop keeps going: a pending
\* dbClient.connect() or insertMany is answered when the store lets it, due
\* timers (back-off, interval) fire and time passes.  Nothing obliges the
\* host to call stop().
SpecOutageLive ==
    /\ InitOutage /\ [][Next]_vars
    /\ WF_vars(\E p \in Procs : ConnectOk(p))
    /\ WF_vars(\E p \in Procs : BackoffDone(p))
    /\ WF_vars(\E p \in Procs : InsertOk(p))
    /\ WF_vars(Housekeeping)
    /\ WF_vars(Advance)
    /\ WF_vars(\E p \in Procs : AdvanceToWake(p))

\* C35: whenever the engine is connected after start() was called and before
\* stop(), the housekeeping interval is eventually armed (or stop() is called
\* first), also when start()'s connect sequence failed and a send() reconnected
C35_TickEventuallyArmed ==
        (isConnected /\ pc["start"] # "idle" /\ pc["stop"] = "idle")
            ~> (timer \/ pc["stop"] # "idle")

\* ------------------------------------------- the fingerprint on its own
\* getPoint applied to payloads at clocks and time-to-live values drawn from
\* bounded sets; each point it returns is staged under its key as send()
\* does (line 104), so the keys it computed can be inspected in the buffer.
PointInputs == {x \in Payloads : x.value # BadValue} \cup {E2ERecords[i] : i \in 1..Len(E2ERecords)}
PointTtls == {Millis, LiveConfig.ttlSecs * Millis, defaultTtlMillis}

InitPoint ==
    /\ now \in {t * Millis : t \in 0..MaxTime}
    /\ ttlMillis \in PointTtls
    /\ options = NoOptions /\ flushMillis = 0 /\ flushExpiry = 0
    /\ timer = FALSE /\ flushing = FALSE /\ isConnected = FALSE
    /\ buffer = <<>>
    /\ pc = [p \in Procs |-> "idle"]
    /\ attempt = [p \in Procs |-> 0]
    /\ wake = [p \in Procs |-> 0]
    /\ arg = [p \in Senders |-> NoArg]
    /\ fl = [p \in Procs |-> IdleFl]
    /\ res = [p \in Senders |-> IdleRes]
    /\ lastRes = IdleRes
    /\ calls = <<>>
    /\ lastFlush = NoFlush
    /\ rejected = {}
    /\ sendsLeft = MaxSends
    /\ connFailsLeft = 0

\* getPoint(x) at the current clock (lines 76-96), then this.buffer.set(point.uid, point)
StagePoint(x) ==
    /\ sendsLeft > 0
    /\ sendsLeft' = sendsLeft - 1
    /\ buffer' = Put(buffer, getPoint(x, now, ttlMillis))
    /\ UNCHANGED <<now, options, ttlMillis, flushMillis, flushExpiry, timer, flushing, isConnected,
                   pc, attempt, wake, arg, fl, res, lastRes, calls, lastFlush, rejected, connFailsLeft>>

NextPoint == \/ \E x \in PointInputs : StagePoint(x)
             \/ Advance

SpecPoint == InitPoint /\ [][NextPoint]_vars

\* The key as the text of the description gives it, computed on little-endian
\* base-256 digit sequences so that no intermediate value leaves the
\* range of the checker's integers.
Byte == 256

RECURSIVE ScaleBytes(_, _, _)
\* the digits of (the number with digits d) * m + carry
ScaleBytes(d, m, carry) ==
    IF d = <<>>
    THEN IF carry = 0 THEN <<>> ELSE <<carry % Byte>> \o ScaleBytes(<<>>, m, carry \div Byte)
    ELSE LET t == (Head(d) * m) + carry IN <<t % Byte>> \o ScaleBytes(Tail(d), m, t \div Byte)

RECURSIVE AddBytes(_, _, _)
\* the digits of the sum of the numbers with digits a and b, plus carry
AddBytes(a, b, carry) ==
    IF a = <<>> /\ b = <<>>
    THEN IF carry = 0 THEN <<>> ELSE <<carry>>
    ELSE LET x == IF a = <<>> THEN 0 ELSE Head(a)
             y == IF b = <<>> THEN 0 ELSE Head(b)
             t == x + y + carry
         IN <<t % Byte>> \o AddBytes(IF a = <<>> THEN a ELSE Tail(a), IF b = <<>> THEN b ELSE Tail(b), t \div Byte)

\* the number with digits d modulo 256^n, as exactly n digits
TruncBytes(d, n) == [k \in 1..n |-> IF k <= Len(d) THEN d[k] ELSE 0]

\* h := (h * 33) XOR c truncated to 32 bits, c a 16-bit character code
RefStep(h, c) == LET m == TruncBytes(ScaleBytes(h, 33, 0), 4)
                 IN <<XorBits(m[1], c % Byte, 8), XorBits(m[2], c \div Byte, 8), m[3], m[4]>>

RECURSIVE RefHash(_, _, _)
\* the hash of the characters json[1..i] taken in reverse order, from h
RefHash(h, json, i) == IF i = 0 THEN h ELSE RefHash(RefStep(h, json[i]), json, i - 1)

\* (hash1 mod 2^32) * 2^12 + (hash2 mod 2^32), as six base-256 digits
RefKey(json) == LET h1 == RefHash(TruncBytes(ScaleBytes(<<>>, 1, 5381), 4), json, Len(json))
                    h2 == RefHash(TruncBytes(ScaleBytes(<<>>, 1, 52711), 4), json, Len(json))
                IN TruncBytes(AddBytes(ScaleBytes(h1, 4096, 0), h2, 0), 6)

\* the base-256 digits of a key held as base-65536 limbs <<high, mid, low>>
KeyBytes(uid) == <<uid[3] % Byte, uid[3] \div Byte, uid[2] % Byte, uid[2] \div Byte, uid[1] % Byte, uid[1] \div Byte>>

Json(r) == Stringify(r.value, r.time, r.expiry)

\* C36: the key of every point is (hash1 mod 2^32) * 2^12 + (hash2 mod 2^32)
\* for the two hashes seeded 5381 and 52711 and updated as h := (h * 33) XOR c
\* (32 bits) over the characters of the serialized string in reverse order;
\* it is non-negative and below 2^44 + 2^32 = (2^12 + 1) * 2^32, that is, its
\* limb above 2^32 is at most 2^12; and a point whose serialized string equals
\* that of a staged point gets the same key (it replaces that entry)
C36_FingerprintFormula ==
        /\ [](\A r \in Records(buffer) :
                /\ KeyBytes(r.uid) = RefKey(Json(r))
                /\ r.uid[1] \in 0..4096 /\ r.uid[2] \in 0..(Word - 1) /\ r.uid[3] \in 0..(Word - 1))
        /\ [][\A x \in PointInputs :
                (StagePoint(x) /\ \E r \in Records(buffer) : Json(r) = Json(getPoint(x, now, ttlMillis)))
                    => Len(buffer') = Len(buffer)]_vars

\* C36 witness: two points were fingerprinted, one with hash1 at or above 2^31
\* (negative as a signed 32-bit value before >>> 0) and a key above 2^43, the
\* other with both hashes below 2^31
C36_KeyOfNegativeHash ==
        /\ sendsLeft = 0 /\ Len(buffer) = 2
        /\ \E r \in Records(buffer) : Hash1(Json(r)).hi >= 32768 /\ r.uid[1] >= 2048
        /\ \E r \in Records(buffer) : Hash1(Json(r)).hi < 32768 /\ Hash2(Json(r)).hi < 32768

====
